---- MODULE Spec2Model ----
(***************************************************************************)
(* Model of src/app.py: the X x Y combination generator.  One press of the *)
(* start button runs the script body below "if run:" once, top to bottom:  *)
(* credential check, list resolution (list_gen or manual splitting), the   *)
(* empty-list guard, the nested pair loop with its progress counter, and   *)
(* the completion message.                                                 *)
(*                                                                         *)
(* A Python str is a sequence of characters; a character is a one-letter   *)
(* string, or a token "U+xxxx" for a character that cannot be written in a *)
(* string literal here.  A Python value is a record [t, v]: t is the type  *)
(* tag and v the content (for a list, the sequence of its items).          *)
(***************************************************************************)
EXTENDS Integers, Sequences, FiniteSets, TLC

VARIABLES
    pc,                 \* position of the script run
    api_key,            \* line 17-20
    mode,               \* line 23
    x_manual, y_manual, \* lines 89, 104 (text areas)
    question_template,  \* line 111
    client,             \* line 126: TRUE once genai.Client is constructed
    resp,               \* list_gen's local resp (line 53)
    X_list, Y_list,     \* lines 130-135
    total, done,        \* lines 145, 147 (Unset before they are assigned)
    progress,           \* line 146: the percentage of the bar (Unset before creation)
    xi, yi,             \* loop positions, 1-based
    query, answer,      \* lines 157, 160
    calls,              \* backend requests issued so far, in order
    out                 \* what the page has shown so far, in order

vars == <<pc, api_key, mode, x_manual, y_manual, question_template, client,
          resp, X_list, Y_list, total, done, progress, xi, yi, query, answer,
          calls, out>>

None == [t |-> "none", v |-> <<>>]
PyStr(s) == [t |-> "str", v |-> s]
PyInt(s) == [t |-> "int", v |-> s]
PyList(l) == [t |-> "list", v |-> l]

\* all strings over chars of length at most n
Strings(chars, n) == UNION {[1..k -> chars] : k \in 0..n}

Min(S) == CHOOSE m \in S : \A k \in S : m <= k

---------------------------------------------------------------------------
(* Python's str methods used by the script *)

\* characters c with c.isspace()
Whitespace == {" ", "\t", "\n", "\r", "\f", "U+000B", "U+001C", "U+001D",
               "U+001E", "U+001F", "U+0085", "U+00A0", "U+1680", "U+2000",
               "U+2001", "U+2002", "U+2003", "U+2004", "U+2005", "U+2006",
               "U+2007", "U+2008", "U+2009", "U+200A", "U+2028", "U+2029",
               "U+202F", "U+205F", "U+3000"}

\* line boundaries of str.splitlines()
LineBreaks == {"\n", "\r", "\f", "U+000B", "U+001C", "U+001D", "U+001E",
               "U+0085", "U+2028", "U+2029"}

RECURSIVE lstrip(_, _)
lstrip(s, chars) ==
    IF s # <<>> /\ Head(s) \in chars THEN lstrip(Tail(s), chars) ELSE s

RECURSIVE rstrip(_, _)
rstrip(s, chars) ==
    IF s # <<>> /\ s[Len(s)] \in chars
    THEN rstrip(SubSeq(s, 1, Len(s) - 1), chars) ELSE s

\* s.strip(chars); s.strip() is strip(s, Whitespace)
strip(s, chars) == rstrip(lstrip(s, chars), chars)

\* s.splitlines(): "\r\n" is one boundary, no empty last line
RECURSIVE splitlines(_)
splitlines(s) ==
    IF s = <<>> THEN <<>>
    ELSE LET brk == {i \in 1..Len(s) : s[i] \in LineBreaks} IN
         IF brk = {} THEN <<s>>
         ELSE LET i == Min(brk)
                  j == IF s[i] = "\r" /\ i < Len(s) /\ s[i + 1] = "\n"
                       THEN i + 1 ELSE i
              IN  <<SubSeq(s, 1, i - 1)>> \o splitlines(SubSeq(s, j + 1, Len(s)))

\* s.replace(old, new) for a one-character old
RECURSIVE replace(_, _, _)
replace(s, old, new) ==
    IF s = <<>> THEN <<>>
    ELSE (IF Head(s) = old THEN new ELSE <<Head(s)>>) \o replace(Tail(s), old, new)

---------------------------------------------------------------------------
(* json.loads on the texts the model draws: arrays, strings and integers.  *)
(* Objects, literals, fractions and escapes need characters outside        *)
(* TextChars.                                                              *)

JsonWs == {" ", "\t", "\n", "\r"}
Digits == {"0", "1", "2", "3", "4", "5", "6", "7", "8", "9"}
\* characters below U+0020, which a strict decoder refuses inside a string
ControlChars == {"\t", "\n", "\r", "\f", "U+000B", "U+001C", "U+001D",
                 "U+001E", "U+001F"}

Fail == [ok |-> FALSE, val |-> None, next |-> 0]
Ok(val, next) == [ok |-> TRUE, val |-> val, next |-> next]

\* first position >= i that holds no JSON whitespace (Len(s)+1 at the end)
skip_ws(s, i) == Min({j \in i..(Len(s) + 1) : j > Len(s) \/ s[j] \notin JsonWs})

\* i is the position after the opening quote
scan_string(s, i) ==
    LET close == {j \in i..Len(s) : s[j] = "\""} IN
    IF close = {} THEN Fail
    ELSE LET j == Min(close) IN
         IF \E k \in i..(j - 1) : s[k] \in ControlChars THEN Fail
         ELSE Ok(PyStr(SubSeq(s, i, j - 1)), j + 1)

\* -?(0|[1-9][0-9]*); the int's value is kept as its decimal text
scan_number(s, i) ==
    LET k == IF s[i] = "-" THEN i + 1 ELSE i IN
    IF k > Len(s) \/ s[k] \notin Digits THEN Fail
    ELSE LET e == IF s[k] = "0" THEN k
                  ELSE Min({j \in k..Len(s) :
                              j = Len(s) \/ s[j + 1] \notin Digits})
             txt == SubSeq(s, i, e)
         IN  Ok(PyInt(IF txt = <<"-", "0">> THEN <<"0">> ELSE txt), e + 1)

RECURSIVE scan_once(_, _)
RECURSIVE array_items(_, _, _)

\* i is the position after "["
parse_array(s, i) ==
    LET j == skip_ws(s, i) IN
    IF j <= Len(s) /\ s[j] = "]" THEN Ok(PyList(<<>>), j + 1)
    ELSE array_items(s, j, <<>>)

array_items(s, i, acc) ==
    LET r == scan_once(s, i) IN
    IF ~r.ok THEN Fail
    ELSE LET j == skip_ws(s, r.next) IN
         IF j > Len(s) THEN Fail
         ELSE IF s[j] = "]" THEN Ok(PyList(Append(acc, r.val)), j + 1)
         ELSE IF s[j] # "," THEN Fail
         ELSE array_items(s, skip_ws(s, j + 1), Append(acc, r.val))

scan_once(s, i) ==
    IF i > Len(s) THEN Fail
    ELSE IF s[i] = "\"" THEN scan_string(s, i + 1)
    ELSE IF s[i] = "[" THEN parse_array(s, i + 1)
    ELSE IF s[i] \in Digits \cup {"-"} THEN scan_number(s, i)
    ELSE Fail

\* json.loads(text): [raised, val]; a text that is not a str raises TypeError,
\* a malformed one or one with extra data raises JSONDecodeError
json_loads(text) ==
    IF text.t # "str" THEN [raised |-> TRUE, val |-> None]
    ELSE LET r == scan_once(text.v, skip_ws(text.v, 1)) IN
         IF ~r.ok \/ skip_ws(text.v, r.next) <= Len(text.v)
         THEN [raised |-> TRUE, val |-> None]
         ELSE [raised |-> FALSE, val |-> r.val]

RECURSIVE py_repr(_)
RECURSIVE join_repr(_)
\* ", ".join(repr(x) for x in items)
join_repr(items) ==
    IF items = <<>> THEN <<>>
    ELSE IF Len(items) = 1 THEN py_repr(items[1])
    ELSE py_repr(items[1]) \o <<",", " ">> \o join_repr(Tail(items))

\* repr(x)
py_repr(x) ==
    IF x.t = "str" THEN <<"'">> \o x.v \o <<"'">>
    ELSE IF x.t = "int" THEN x.v
    ELSE IF x.t = "list" THEN <<"[">> \o join_repr(x.v) \o <<"]">>
    ELSE <<"N", "o", "n", "e">>

\* str(x)
py_str(x) == IF x.t = "str" THEN x.v ELSE py_repr(x)

---------------------------------------------------------------------------
(* The script's own functions *)

\* [str(x).strip() for x in items if str(x).strip()]   (lines 64, 69)
strip_items(items) ==
    LET ss == [i \in 1..Len(items) |-> strip(py_str(items[i]), Whitespace)]
    IN  SelectSeq(ss, LAMBDA x : x # <<>>)

\* lines 66-71: the try block.  [raised, returned, value]: returned means the
\* return of line 69 was taken; the except clause swallows every exception
try_json_nocatch(r) ==
    LET j == json_loads(r.text) IN
    IF j.raised THEN [raised |-> TRUE, returned |-> FALSE, value |-> <<>>]
    ELSE IF j.val.t = "list"
         THEN [raised |-> FALSE, returned |-> TRUE, value |-> strip_items(j.val.v)]
         ELSE [raised |-> FALSE, returned |-> FALSE, value |-> <<>>]

try_json(r) ==
    LET j == json_loads(r.text) IN
    IF ~j.raised /\ j.val.t = "list"
    THEN [raised |-> FALSE, returned |-> TRUE, value |-> strip_items(j.val.v)]
    ELSE [raised |-> FALSE, returned |-> FALSE, value |-> <<>>]

\* lines 73-75: the characters of strip("-... \t") are dash, bullet, space, tab
BulletChars == {"-", "U+2022", " ", "\t"}

free_form(r) ==
    LET text == strip(IF r.text.t = "str" THEN r.text.v ELSE <<>>, Whitespace)
        kept == SelectSeq(splitlines(text), LAMBDA ln : strip(ln, Whitespace) # <<>>)
    IN  [i \in 1..Len(kept) |-> strip(kept[i], BulletChars)]

\* lines 61-75, after the request of line 53 has returned r: [raised, value]
list_gen(r) ==
    IF r.parsed.t = "list"
    THEN [raised |-> FALSE, value |-> strip_items(r.parsed.v)]
    ELSE LET j == try_json(r) IN
         IF j.raised THEN [raised |-> TRUE, value |-> <<>>]
         ELSE IF j.returned THEN [raised |-> FALSE, value |-> j.value]
         ELSE [raised |-> FALSE, value |-> free_form(r)]

\* lines 134, 135: [ln.strip() for ln in text.splitlines() if ln.strip()]
manual_lines_keep_blank(text) ==
    LET kept == SelectSeq(splitlines(text), LAMBDA ln : ln # <<>>)
    IN  [i \in 1..Len(kept) |-> strip(kept[i], Whitespace)]

manual_lines(text) ==
    LET kept == SelectSeq(splitlines(text), LAMBDA ln : strip(ln, Whitespace) # <<>>)
    IN  [i \in 1..Len(kept) |-> strip(kept[i], Whitespace)]

\* line 157
build_query_typo(template, x_word, y_word) ==
    replace(replace(template, "X", x_word), "X", y_word)

build_query(template, x_word, y_word) ==
    replace(replace(template, "X", x_word), "Y", y_word)

\* line 49: (resp.text or "").strip()
gen_response(text) == strip(IF text.t = "str" THEN text.v ELSE <<>>, Whitespace)

---------------------------------------------------------------------------
(* Inputs *)

MaxTextLen == 3
MaxParsedLen == 2
MaxManualLen == 4
MaxTemplateLen == 3
MaxWordLen == 2

\* total, done and progress before lines 145-147 have run
Unset == -1

\* the structured-list responses list_gen is checked on
TextChars == {"[", "]", ",", "\"", "1", "-", " ", "\n"}
ParsedItems == {PyStr(<<" ">>), PyStr(<<"1", " ">>), PyInt(<<"2">>)}
Responses ==
    [parsed : {None, PyStr(<<"1">>)}
                \cup {PyList(l) : l \in Strings(ParsedItems, MaxParsedLen)},
     text : {None} \cup {PyStr(s) : s \in Strings(TextChars, MaxTextLen)}]

\* the manual texts the splitting is checked on
ManualChars == {"a", "b", " ", "\n", "\r"}
\* the templates and words the substitution is checked on
QueryChars == {"X", "Y", "a"}

\* the inputs of a whole run
RunKeys == {<<>>, <<"k">>}
RunTemplates == {<<"X", " ", "Y">>, <<"Y", "X", "Y">>}
RunManualTexts ==
    { <<>>,
      <<" ", "\n", "\t">>,
      <<"a", "\n", "b">>,
      <<" ", "a", "\r", "\n", "\n", "b", " ", "\n", "a">> }
RunResponses ==
    { [parsed |-> PyList(<<PyStr(<<"P">>), PyStr(<<"Q">>)>>), text |-> None],
      [parsed |-> PyList(<<PyStr(<<"P">>), PyStr(<<" ", "Q">>), PyInt(<<"1">>)>>),
       text |-> None],
      [parsed |-> PyList(<<PyStr(<<" ">>)>>),
       text |-> PyStr(<<"[", "\"", "P", "\"", "]">>)],
      [parsed |-> None,
       text |-> PyStr(<<"[", "\"", "P", "\"", ",", "\"", "Q", "\"", "]">>)],
      [parsed |-> None,
       text |-> PyStr(<<"-", " ", "A", "\n", "-", " ", "B", "\n", "\n", "-", " ", "C">>)],
      [parsed |-> None, text |-> PyStr(<<"-", "\n", "A">>)],
      [parsed |-> None, text |-> None],
      [parsed |-> PyStr(<<"x">>), text |-> PyStr(<<"[", "]">>)] }
RunAnswers == {None, PyStr(<<" ", "o", "k", "\n">>)}

\* a backend request and a piece of the page
ListCall(ok) == [kind |-> "list", xi |-> 0, yi |-> 0, contents |-> <<>>, ok |-> ok]
TextCall(i, j, q, ok) == [kind |-> "text", xi |-> i, yi |-> j, contents |-> q, ok |-> ok]
Shown(kind, i, j) == [kind |-> kind, xi |-> i, yi |-> j]

---------------------------------------------------------------------------
(* One run of the script *)

Init ==
    /\ pc = "idle"
    /\ api_key = <<>> /\ mode = "generate"
    /\ x_manual = <<>> /\ y_manual = <<>> /\ question_template = <<>>
    /\ client = FALSE /\ resp = [parsed |-> None, text |-> None]
    /\ X_list = <<>> /\ Y_list = <<>>
    /\ total = Unset /\ done = Unset /\ progress = Unset
    /\ xi = 0 /\ yi = 0 /\ query = <<>> /\ answer = <<>>
    /\ calls = <<>> /\ out = <<>>

\* lines 17-20, 23, 83-116, 118: the widgets are read and the button is pressed
Start ==
    /\ pc = "idle"
    /\ \E typed \in RunKeys, secret \in RunKeys :
          api_key' = IF typed # <<>> THEN typed ELSE secret
    /\ mode' \in {"generate", "manual"}
    /\ IF mode' = "manual"
       THEN x_manual' \in RunManualTexts /\ y_manual' \in RunManualTexts
       ELSE UNCHANGED <<x_manual, y_manual>>
    /\ question_template' \in RunTemplates
    /\ pc' = "check_key"
    /\ UNCHANGED <<client, resp, X_list, Y_list, total, done, progress, xi, yi,
                   query, answer, calls, out>>

\* lines 121-124
CheckKey_no_stop ==
    /\ pc = "check_key"
    /\ pc' = "make_client"
    /\ UNCHANGED <<api_key, mode, x_manual, y_manual, question_template, client,
                   resp, X_list, Y_list, total, done, progress, xi, yi, query,
                   answer, calls, out>>

CheckKey ==
    /\ pc = "check_key"
    /\ IF api_key = <<>>
       THEN out' = Append(out, Shown("error", 0, 0)) /\ pc' = "stopped"
       ELSE out' = out /\ pc' = "make_client"
    /\ UNCHANGED <<api_key, mode, x_manual, y_manual, question_template, client,
                   resp, X_list, Y_list, total, done, progress, xi, yi, query,
                   answer, calls>>

\* lines 126, 34-37, and the branch of line 128
MakeClient ==
    /\ pc = "make_client"
    /\ IF api_key = <<>>
       THEN client' = client /\ pc' = "stopped"
       ELSE client' = TRUE
            /\ pc' = IF mode = "generate" THEN "x_list_call" ELSE "manual"
    /\ UNCHANGED <<api_key, mode, x_manual, y_manual, question_template, resp,
                   X_list, Y_list, total, done, progress, xi, yi, query, answer,
                   calls, out>>

\* lines 53-60: the structured-list request returns a response
ListCallOk ==
    /\ pc \in {"x_list_call", "y_list_call"}
    /\ resp' \in RunResponses
    /\ calls' = Append(calls, ListCall(TRUE))
    /\ pc' = IF pc = "x_list_call" THEN "x_list_gen" ELSE "y_list_gen"
    /\ UNCHANGED <<api_key, mode, x_manual, y_manual, question_template, client,
                   X_list, Y_list, total, done, progress, xi, yi, query, answer,
                   out>>

\* lines 53-60: the request raises, and nothing catches it
ListCallFail ==
    /\ pc \in {"x_list_call", "y_list_call"}
    /\ calls' = Append(calls, ListCall(FALSE))
    /\ pc' = "crashed"
    /\ UNCHANGED <<api_key, mode, x_manual, y_manual, question_template, client,
                   resp, X_list, Y_list, total, done, progress, xi, yi, query,
                   answer, out>>

\* lines 61-75, and the assignment of line 130 or 132
ListGenReturn ==
    /\ pc \in {"x_list_gen", "y_list_gen"}
    /\ LET r == list_gen(resp) IN
       IF r.raised
       THEN pc' = "crashed" /\ UNCHANGED <<X_list, Y_list>>
       ELSE IF pc = "x_list_gen"
            THEN X_list' = r.value /\ Y_list' = Y_list /\ pc' = "y_list_call"
            ELSE Y_list' = r.value /\ X_list' = X_list /\ pc' = "guard"
    /\ UNCHANGED <<api_key, mode, x_manual, y_manual, question_template, client,
                   resp, total, done, progress, xi, yi, query, answer, calls, out>>

\* lines 134-135
ResolveManual ==
    /\ pc = "manual"
    /\ X_list' = manual_lines(x_manual)
    /\ Y_list' = manual_lines(y_manual)
    /\ pc' = "guard"
    /\ UNCHANGED <<api_key, mode, x_manual, y_manual, question_template, client,
                   resp, total, done, progress, xi, yi, query, answer, calls, out>>

\* lines 137-150: the guard, then the counters; the outer loop starts at line 152
Guard_x_only ==
    /\ pc = "guard"
    /\ IF X_list = <<>>
       THEN /\ out' = Append(out, Shown("warning", 0, 0))
            /\ pc' = "stopped"
            /\ UNCHANGED <<total, done, progress, xi>>
       ELSE /\ out' = Append(out, Shown("success", Len(X_list), Len(Y_list)))
            /\ total' = Len(X_list) * Len(Y_list)
            /\ progress' = 0
            /\ done' = 0
            /\ xi' = 1
            /\ pc' = "x_heading"
    /\ UNCHANGED <<api_key, mode, x_manual, y_manual, question_template, client,
                   resp, X_list, Y_list, yi, query, answer, calls>>

Guard ==
    /\ pc = "guard"
    /\ IF X_list = <<>> \/ Y_list = <<>>
       THEN /\ out' = Append(out, Shown("warning", 0, 0))
            /\ pc' = "stopped"
            /\ UNCHANGED <<total, done, progress, xi>>
       ELSE /\ out' = Append(out, Shown("success", Len(X_list), Len(Y_list)))
            /\ total' = Len(X_list) * Len(Y_list)
            /\ progress' = 0
            /\ done' = 0
            /\ xi' = 1
            /\ pc' = "x_heading"
    /\ UNCHANGED <<api_key, mode, x_manual, y_manual, question_template, client,
                   resp, X_list, Y_list, yi, query, answer, calls>>

\* lines 152-154, and the start of the inner loop at line 156
XHeading ==
    /\ pc = "x_heading"
    /\ out' = Append(out, Shown("heading", xi, 0))
    /\ IF Y_list # <<>>
       THEN yi' = 1 /\ xi' = xi /\ pc' = "build_query"
       ELSE /\ yi' = yi
            /\ IF xi < Len(X_list)
               THEN xi' = xi + 1 /\ pc' = "x_heading"
               ELSE xi' = xi /\ pc' = "complete"
    /\ UNCHANGED <<api_key, mode, x_manual, y_manual, question_template, client,
                   resp, X_list, Y_list, total, done, progress, query, answer,
                   calls>>

\* line 157
BuildQuery ==
    /\ pc = "build_query"
    /\ query' = build_query(question_template, X_list[xi], Y_list[yi])
    /\ pc' = "gen_call"
    /\ UNCHANGED <<api_key, mode, x_manual, y_manual, question_template, client,
                   resp, X_list, Y_list, total, done, progress, xi, yi, answer,
                   calls, out>>

\* lines 159-160, 43-49: the text request returns
GenCallOk ==
    /\ pc = "gen_call"
    /\ \E text \in RunAnswers : answer' = gen_response(text)
    /\ calls' = Append(calls, TextCall(xi, yi, query, TRUE))
    /\ pc' = "render"
    /\ UNCHANGED <<api_key, mode, x_manual, y_manual, question_template, client,
                   resp, X_list, Y_list, total, done, progress, xi, yi, query,
                   out>>

\* lines 159-160, 43-49: the text request raises, and nothing catches it
GenCallFail_skip ==
    /\ pc = "gen_call"
    /\ calls' = Append(calls, TextCall(xi, yi, query, FALSE))
    /\ answer' = <<>>
    /\ pc' = "render"
    /\ UNCHANGED <<api_key, mode, x_manual, y_manual, question_template, client,
                   resp, X_list, Y_list, total, done, progress, xi, yi, query,
                   out>>

GenCallFail ==
    /\ pc = "gen_call"
    /\ calls' = Append(calls, TextCall(xi, yi, query, FALSE))
    /\ pc' = "crashed"
    /\ UNCHANGED <<api_key, mode, x_manual, y_manual, question_template, client,
                   resp, X_list, Y_list, total, done, progress, xi, yi, query,
                   answer, out>>

\* lines 163-196: the result block of the pair
Render ==
    /\ pc = "render"
    /\ out' = Append(out, Shown("result", xi, yi))
    /\ pc' = "advance"
    /\ UNCHANGED <<api_key, mode, x_manual, y_manual, question_template, client,
                   resp, X_list, Y_list, total, done, progress, xi, yi, query,
                   answer, calls>>

\* lines 198-199, then the next round of the loops of lines 156 and 152
Advance_inner_bound ==
    /\ pc = "advance"
    /\ done' = done + 1
    /\ progress' = (done' * 100) \div total
    /\ IF yi < Len(Y_list) - 1
       THEN yi' = yi + 1 /\ xi' = xi /\ pc' = "build_query"
       ELSE /\ yi' = yi
            /\ IF xi < Len(X_list)
               THEN xi' = xi + 1 /\ pc' = "x_heading"
               ELSE xi' = xi /\ pc' = "complete"
    /\ UNCHANGED <<api_key, mode, x_manual, y_manual, question_template, client,
                   resp, X_list, Y_list, total, query, answer, calls, out>>

Advance_early ==
    /\ pc = "advance"
    /\ done' = IF done = 0 THEN 2 ELSE done + 1
    /\ progress' = (done' * 100) \div total
    /\ IF yi < Len(Y_list)
       THEN yi' = yi + 1 /\ xi' = xi /\ pc' = "build_query"
       ELSE /\ yi' = yi
            /\ IF xi < Len(X_list)
               THEN xi' = xi + 1 /\ pc' = "x_heading"
               ELSE xi' = xi /\ pc' = "complete"
    /\ UNCHANGED <<api_key, mode, x_manual, y_manual, question_template, client,
                   resp, X_list, Y_list, total, query, answer, calls, out>>

Advance ==
    /\ pc = "advance"
    /\ done' = done + 1
    /\ progress' = (done' * 100) \div total
    /\ IF yi < Len(Y_list)
       THEN yi' = yi + 1 /\ xi' = xi /\ pc' = "build_query"
       ELSE /\ yi' = yi
            /\ IF xi < Len(X_list)
               THEN xi' = xi + 1 /\ pc' = "x_heading"
               ELSE xi' = xi /\ pc' = "complete"
    /\ UNCHANGED <<api_key, mode, x_manual, y_manual, question_template, client,
                   resp, X_list, Y_list, total, query, answer, calls, out>>

\* lines 201-202
Complete ==
    /\ pc = "complete"
    /\ out' = Append(out, Shown("complete", 0, 0))
    /\ pc' = "finished"
    /\ UNCHANGED <<api_key, mode, x_manual, y_manual, question_template, client,
                   resp, X_list, Y_list, total, done, progress, xi, yi, query,
                   answer, calls>>

Next ==
    \/ Start \/ CheckKey \/ MakeClient
    \/ ListCallOk \/ ListCallFail \/ ListGenReturn \/ ResolveManual
    \/ Guard \/ XHeading \/ BuildQuery \/ GenCallOk \/ GenCallFail
    \/ Render \/ Advance \/ Complete

Spec == Init /\ [][Next]_vars

---------------------------------------------------------------------------
(* list_gen alone, on every response up to the bounds: the run stands at   *)
(* the return of the second request (line 132) with X_list resolved        *)

InitListGen ==
    /\ pc = "y_list_gen"
    /\ api_key = <<"k">> /\ mode = "generate"
    /\ x_manual = <<>> /\ y_manual = <<>>
    /\ question_template \in RunTemplates
    /\ client = TRUE
    /\ resp \in Responses
    /\ X_list = <<<<"P">>>> /\ Y_list = <<>>
    /\ total = Unset /\ done = Unset /\ progress = Unset
    /\ xi = 0 /\ yi = 0 /\ query = <<>> /\ answer = <<>>
    /\ calls = <<ListCall(TRUE), ListCall(TRUE)>> /\ out = <<>>

NextListGen == ListGenReturn \/ Guard

SpecListGen == InitListGen /\ [][NextListGen]_vars

(* the manual splitting alone, on every text up to the bounds *)

InitManual ==
    /\ pc = "manual"
    /\ api_key = <<"k">> /\ mode = "manual"
    /\ x_manual \in Strings(ManualChars, MaxManualLen)
    /\ y_manual \in RunManualTexts
    /\ question_template = <<"X", " ", "Y">>
    /\ client = TRUE /\ resp = [parsed |-> None, text |-> None]
    /\ X_list = <<>> /\ Y_list = <<>>
    /\ total = Unset /\ done = Unset /\ progress = Unset
    /\ xi = 0 /\ yi = 0 /\ query = <<>> /\ answer = <<>>
    /\ calls = <<>> /\ out = <<>>

NextManual == ResolveManual

SpecManual == InitManual /\ [][NextManual]_vars

(* the substitution alone, on every template and pair up to the bounds *)

InitQuery ==
    /\ pc = "build_query"
    /\ api_key = <<"k">> /\ mode = "manual"
    /\ x_manual = <<>> /\ y_manual = <<>>
    /\ question_template \in Strings(QueryChars, MaxTemplateLen)
    /\ client = TRUE /\ resp = [parsed |-> None, text |-> None]
    /\ \E x \in Strings(QueryChars, MaxWordLen) : X_list = <<x>>
    /\ \E y \in Strings(QueryChars, MaxWordLen) : Y_list = <<y>>
    /\ total = 1 /\ done = 0 /\ progress = 0
    /\ xi = 1 /\ yi = 1 /\ query = <<>> /\ answer = <<>>
    /\ calls = <<>>
    /\ out = <<Shown("success", 1, 1), Shown("heading", 1, 0)>>

NextQuery == BuildQuery

SpecQuery == InitQuery /\ [][NextQuery]_vars

---------------------------------------------------------------------------
(* Properties *)

Results == SelectSeq(out, LAMBDA e : e.kind = "result")
TextCalls == SelectSeq(calls, LAMBDA c : c.kind = "text")
HasShown(kind) == \E n \in 1..Len(out) : out[n].kind = kind
Chars(s) == {s[n] : n \in 1..Len(s)}

\* the n-th position pair of X_list x Y_list, X outer and Y inner
RowMajor(n) == <<((n - 1) \div Len(Y_list)) + 1, ((n - 1) % Len(Y_list)) + 1>>

\* C1: with a backend that never fails a run issues exactly |X_list|*|Y_list|
\* pair queries and renders that many results, the n-th query and the n-th
\* result being those of the n-th pair in row-major order, so that no pair is
\* queried twice and none is skipped.
C1_RowMajorOnce ==
    /\ \A n \in 1..Len(Results) :
          /\ Y_list # <<>>
          /\ <<Results[n].xi, Results[n].yi>> = RowMajor(n)
          /\ Results[n].xi <= Len(X_list)
    /\ \A n \in 1..Len(TextCalls) :
          /\ Y_list # <<>>
          /\ <<TextCalls[n].xi, TextCalls[n].yi>> = RowMajor(n)
          /\ TextCalls[n].xi <= Len(X_list)
          /\ TextCalls[n].contents =
                replace(replace(question_template, "X", X_list[TextCalls[n].xi]),
                        "Y", Y_list[TextCalls[n].yi])
    /\ Len(TextCalls) \in {Len(Results), Len(Results) + 1}
    /\ pc = "finished" =>
          /\ Len(Results) = Len(X_list) * Len(Y_list)
          /\ Len(TextCalls) = Len(X_list) * Len(Y_list)
          /\ X_list # <<>> /\ Y_list # <<>>

C1_Witness ==
    /\ pc = "finished"
    /\ Len(X_list) = 2 /\ Len(Y_list) = 3
    /\ Len(Results) = 6
    /\ \A n \in 1..Len(calls) : calls[n].ok

\* C2: a failed backend call is the last thing the run does: when the call
\* of the k-th pair fails, exactly k-1 results have been rendered, done is
\* k-1, the completion message is not shown, and no step follows (no later
\* call, no retry, no skip-and-continue).
C2_FailureInv ==
    /\ \A n \in 1..Len(calls) :
          ~calls[n].ok => n = Len(calls) /\ pc = "crashed"
    /\ (pc = "crashed" /\ TextCalls # <<>>) =>
          LET k == Len(TextCalls) IN
          /\ ~TextCalls[k].ok
          /\ <<TextCalls[k].xi, TextCalls[k].yi>> = RowMajor(k)
          /\ Len(Results) = k - 1
          /\ done = k - 1
          /\ ~HasShown("complete")

C2_FailureHalts == []C2_FailureInv /\ [][pc # "crashed"]_vars

C2_Witness ==
    /\ pc = "crashed"
    /\ total = 6
    /\ Len(TextCalls) = 4
    /\ Len(Results) = 3 /\ done = 3

\* C3: once the lists are resolved and one of them is empty, the run has
\* shown the warning and stopped for good: no pair query, no heading, no
\* result block, and total, done and the progress bar were never created.
ListsResolved ==
    /\ pc \notin {"idle", "check_key", "make_client", "x_list_call", "x_list_gen",
                  "y_list_call", "y_list_gen", "manual", "guard"}
    /\ ~(pc = "stopped" /\ api_key = <<>>)
    /\ ~(pc = "crashed" /\ TextCalls = <<>>)

C3_EmptyInv ==
    (ListsResolved /\ (X_list = <<>> \/ Y_list = <<>>)) =>
        /\ pc = "stopped"
        /\ out = <<Shown("warning", 0, 0)>>
        /\ TextCalls = <<>>
        /\ total = Unset /\ done = Unset /\ progress = Unset

C3_EmptyListHalts == []C3_EmptyInv /\ [][pc # "stopped"]_vars

C3_Witness ==
    /\ pc = "stopped"
    /\ X_list # <<>> /\ Y_list = <<>>
    /\ out = <<Shown("warning", 0, 0)>>

\* C4: with an empty credential the run, in either mode, shows the error
\* and stops before the client is constructed and before any backend call.
C4_MissingCredential ==
    (api_key = <<>> /\ pc \notin {"idle", "check_key"}) =>
        /\ pc = "stopped"
        /\ out = <<Shown("error", 0, 0)>>
        /\ ~client
        /\ calls = <<>>

C4_Witness ==
    /\ pc = "stopped" /\ api_key = <<>> /\ mode = "generate"
    /\ out = <<Shown("error", 0, 0)>>

\* the three tiers of list_gen, each taken alone
Tier1(r) == IF r.parsed.t = "list" THEN strip_items(r.parsed.v) ELSE <<>>
Tier2(r) ==
    LET j == json_loads(r.text) IN
    IF ~j.raised /\ j.val.t = "list" THEN strip_items(j.val.v) ELSE <<>>
Tier3(r) == free_form(r)

\* C5: list_gen returns the output of the first of its three tiers (parsed
\* list, JSON text, free-form lines) that yields a non-empty list.
C5_FirstNonEmptyTier ==
    pc \in {"guard", "stopped", "x_heading"} =>
        Y_list = IF Tier1(resp) # <<>> THEN Tier1(resp)
                 ELSE IF Tier2(resp) # <<>> THEN Tier2(resp)
                 ELSE Tier3(resp)

\* C6: no entry of a list handed to the combination loop is empty or
\* whitespace-only.
C6_TopicListInvariant ==
    pc \in {"x_heading", "build_query", "gen_call", "render", "advance",
            "complete", "finished"} =>
        /\ \A n \in 1..Len(X_list) : strip(X_list[n], Whitespace) # <<>>
        /\ \A n \in 1..Len(Y_list) : strip(Y_list[n], Whitespace) # <<>>

\* C7: a response that cannot be used as a list (parsed field not a list;
\* text missing, not JSON, or JSON that is not an array) never makes list_gen
\* raise: a list comes back, and all the page may show of it is the
\* empty-list warning, when that list is empty.
Unusable(r) ==
    /\ r.parsed.t # "list"
    /\ json_loads(r.text).raised \/ json_loads(r.text).val.t # "list"

C7_MalformedNeverRaises ==
    Unusable(resp) =>
        /\ pc # "crashed"
        /\ pc # "y_list_gen" =>
              /\ DOMAIN Y_list = 1..Len(Y_list)
              /\ Y_list = free_form(resp)
        /\ ~HasShown("error")
        /\ pc = "stopped" => (Y_list = <<>> /\ out = <<Shown("warning", 0, 0)>>)
        /\ pc = "x_heading" => (Y_list # <<>> /\ ~HasShown("warning"))

C7_Witness ==
    /\ Unusable(resp) /\ resp.text = None
    /\ pc = "stopped"
    /\ out = <<Shown("warning", 0, 0)>>

\* the lines of a text joined by line breaks
RECURSIVE JoinLines(_)
JoinLines(lines) ==
    IF lines = <<>> THEN <<>>
    ELSE IF Len(lines) = 1 THEN lines[1]
    ELSE lines[1] \o <<"\n">> \o JoinLines(Tail(lines))

\* C8: the manual path returns exactly the lines of the text that are
\* non-empty after trimming, each trimmed, in their order and with
\* duplicates; splitting the returned lines again, joined by line breaks,
\* gives the same list.
C8_ManualLines ==
    pc = "guard" =>
        LET lines == splitlines(x_manual)
            K == {i \in 1..Len(lines) : strip(lines[i], Whitespace) # <<>>}
            kth(n) == CHOOSE i \in K : Cardinality({j \in K : j <= i}) = n
        IN  /\ Len(X_list) = Cardinality(K)
            /\ \A n \in 1..Len(X_list) :
                  /\ X_list[n] = strip(lines[kth(n)], Whitespace)
                  /\ X_list[n] # <<>>
                  /\ Head(X_list[n]) \notin Whitespace
                  /\ X_list[n][Len(X_list[n])] \notin Whitespace
                  /\ Chars(X_list[n]) \cap LineBreaks = {}
            /\ manual_lines(JoinLines(X_list)) = X_list

C8_Witness ==
    /\ pc = "guard"
    /\ Len(X_list) = 2 /\ X_list[1] = X_list[2]
    /\ Len(splitlines(x_manual)) = 3
    /\ X_list[1] # splitlines(x_manual)[1]

\* C9 as stated: for every template, x and y the query is the same whether
\* "X" or "Y" is replaced first.
C9_OrderIrrelevant ==
    pc = "gen_call" =>
        query = replace(replace(question_template, "Y", Y_list[yi]),
                        "X", X_list[xi])

\* C9 amended: the order of the two replacements does not matter when x
\* does not contain "Y" and y does not contain "X".
C9_OrderIrrelevantPlainWords ==
    (pc = "gen_call" /\ "Y" \notin Chars(X_list[xi]) /\ "X" \notin Chars(Y_list[yi])) =>
        query = replace(replace(question_template, "Y", Y_list[yi]),
                        "X", X_list[xi])

C9_Witness ==
    /\ pc = "gen_call"
    /\ {"X", "Y"} \subseteq Chars(question_template)
    /\ Chars(X_list[xi]) = {"X", "a"} /\ Chars(Y_list[yi]) = {"Y"}
    /\ query # question_template

\* the part of C10 that holds as stated: bounds, and done against the
\* results rendered
C10_Counted ==
    total # Unset =>
        /\ total = Len(X_list) * Len(Y_list)
        /\ 0 <= done /\ done <= total
        /\ done = IF pc = "advance" THEN Len(Results) - 1 ELSE Len(Results)

\* C10 as stated: ... and done = total holds when and only when the
\* completion message is shown.
C10_ProgressCounter ==
    /\ C10_Counted
    /\ total # Unset => (done = total <=> HasShown("complete"))

\* C10 amended: 0 <= done <= total = |X_list|*|Y_list|; done never
\* decreases and grows by one per pair, after the pair's call has returned
\* and its result is rendered; the completion message is shown only when done
\* = total, and done = total holds exactly from the last increment on, when
\* showing the completion message is the next step or has been taken.
C10_AmendedInv ==
    /\ C10_Counted
    /\ total # Unset =>
          /\ HasShown("complete") => done = total
          /\ done = total <=> pc \in {"complete", "finished"}
          /\ HasShown("complete") <=> pc = "finished"

C10_ProgressCounterAmended ==
    /\ []C10_AmendedInv
    /\ [][done' # done =>
            \/ done = Unset /\ done' = 0
            \/ /\ done' = done + 1
               /\ Len(Results) = done'
               /\ Len(TextCalls) = done' /\ TextCalls[done'].ok
               /\ <<Results[done'].xi, Results[done'].yi>> = <<xi, yi>>]_vars

C10_Witness ==
    /\ pc = "complete"
    /\ total = 6 /\ done = total
    /\ ~HasShown("complete")

====
